---- MODULE Spec2Model ----
(***************************************************************************)
(* dotfilesvault: the vault synchronisation and history model.             *)
(*                                                                         *)
(* A path is the sequence of its components (std::path::Components); an    *)
(* absolute path starts with the root component.  A component is the       *)
(* sequence of its characters, so that the dotfile predicate and the       *)
(* ignore patterns are computed on the characters as the code does.  The   *)
(* file tree is a function from the paths that exist to their nodes.  The  *)
(* tree holds directories and regular files only (no symbolic links), and  *)
(* path strings hold no "." or ".." components.                            *)
(***************************************************************************)
EXTENDS Integers, Sequences, FiniteSets, TLC

VARIABLES
    config,     \* lib.rs Config: [home_dir, vault_dir]
    fs,         \* the file tree: path |-> [kind, data]
    repo,       \* the git repository of the vault: [head, commits, index]
    last,       \* the command in progress or just run: [op, arg, res, entries, ...]
    inputs,     \* the path strings the commands are given in this run
    removable,  \* the vault copies the user may remove in this run
    backedUp,   \* history: original path |-> the data its latest backup read
    recent,     \* history: original paths copied by the command just before
    backupRun,  \* history: a backup command has been run
    cyc         \* history: how far the run is a sequence of modify, backup,
                \* commit cycles on one dotfile: [phase, n, file]

vars == <<config, fs, repo, last, inputs, removable, backedUp, recent, backupRun, cyc>>

---------------------------------------------------------------------------
(* Bounds *)

MaxCommits == 2
MaxList == 2

---------------------------------------------------------------------------
(* Component names *)

RootDir == <<"/">>
N_home == <<"h">>
N_vault == <<"v">>
N_out == <<"o">>
N_a == <<".", "a">>
N_r == <<"r">>
N_c == <<".", "c">>
N_n == <<".", "n">>
N_m == <<".", "m">>
N_tmp == <<".", "a", ".", "t", "m", "p">>
N_gitignore == <<".", "g", "i", "t", "i", "g", "n", "o", "r", "e">>
N_git == <<".", "g", "i", "t">>
N_HEAD == <<"H", "E", "A", "D">>

(* File data *)
DefaultIgnoreText == "# Ignore temporary files\n*.tmp\n*.bak\n"
GitHeadText == "ref: refs/heads/master\n"
EmptyData == ""
UserData == {"A", "B"}

---------------------------------------------------------------------------
(* std::path *)

IsPrefix(a, b) == Len(a) <= Len(b) /\ SubSeq(b, 1, Len(a)) = a

starts_with(path, base) == IsPrefix(base, path)

strip_prefix(path, base) ==
    IF IsPrefix(base, path)
    THEN [ok |-> TRUE, path |-> SubSeq(path, Len(base) + 1, Len(path))]
    ELSE [ok |-> FALSE, path |-> <<>>]

is_absolute(path) == Len(path) > 0 /\ path[1] = RootDir

join(base, path) == IF is_absolute(path) THEN path ELSE base \o path

HasFileName(path) == Len(path) > 0 /\ path[Len(path)] # RootDir

file_name(path) == path[Len(path)]

HasParent(path) == Len(path) > 0 /\ path # <<RootDir>>

parent(path) == SubSeq(path, 1, Len(path) - 1)

(* Mutant: any component of the path may carry the dot. *)
is_dotfile_any_component(path) ==
    \E i \in 1..Len(path) : path[i] # RootDir /\ path[i][1] = "."

is_dotfile(path) ==
    /\ HasFileName(path)
    /\ Len(file_name(path)) > 0
    /\ file_name(path)[1] = "."

---------------------------------------------------------------------------
(* std::fs on the file tree *)

FileNode(d) == [kind |-> "file", data |-> d]
DirNode == [kind |-> "dir", data |-> EmptyData]

exists(f, p) == p \in DOMAIN f
is_file(f, p) == p \in DOMAIN f /\ f[p].kind = "file"
is_dir(f, p) == p \in DOMAIN f /\ f[p].kind = "dir"

Put(f, p, n) == [q \in DOMAIN f \cup {p} |-> IF q = p THEN n ELSE f[q]]

Prefixes(p) == {SubSeq(p, 1, k) : k \in 1..Len(p)}

create_dir_all(f, p) ==
    IF \E q \in Prefixes(p) : is_file(f, q)
    THEN [ok |-> FALSE, fs |-> f]
    ELSE [ok |-> TRUE,
          fs |-> [q \in DOMAIN f \cup Prefixes(p) |->
                     IF q \in DOMAIN f THEN f[q] ELSE DirNode]]

SelfCopyOutcomes == {"truncate", "error"}

(* Mutant: the destination is truncated and nothing is written to it. *)
fs_copy_empty(f, from, to, sc) ==
    IF ~is_file(f, from) \/ is_dir(f, to) THEN [ok |-> FALSE, fs |-> f]
    ELSE [ok |-> TRUE, fs |-> Put(f, to, FileNode(EmptyData))]

(* fs::copy opens the source, then opens the destination truncating it, then
   copies.  With source and destination the same file the outcome depends on
   the platform: the file is left empty, or the copy fails. *)
fs_copy(f, from, to, sc) ==
    IF ~is_file(f, from) THEN [ok |-> FALSE, fs |-> f]
    ELSE IF from = to
    THEN IF sc = "truncate"
         THEN [ok |-> TRUE, fs |-> Put(f, to, FileNode(EmptyData))]
         ELSE [ok |-> FALSE, fs |-> f]
    ELSE IF is_dir(f, to) \/ ~HasParent(to) \/ ~is_dir(f, parent(to))
    THEN [ok |-> FALSE, fs |-> f]
    ELSE [ok |-> TRUE, fs |-> Put(f, to, FileNode(f[from].data))]

(* The entries a directory walk from root yields *)
WalkDir(f, root) == {p \in DOMAIN f : starts_with(p, root)}

---------------------------------------------------------------------------
(* Results *)

Ok(v) == [ok |-> TRUE, err |-> "", val |-> v]
Err(e, v) == [ok |-> FALSE, err |-> e, val |-> v]

---------------------------------------------------------------------------
(* lib.rs *)

init_vault_dir(cfg, f) ==
    IF ~exists(f, cfg.vault_dir) THEN create_dir_all(f, cfg.vault_dir)
    ELSE [ok |-> TRUE, fs |-> f]

---------------------------------------------------------------------------
(* backup.rs *)

(* Mutant: the home prefix is not stripped. *)
Dotfile_new_no_strip(original_path, cfg) ==
    [original_path |-> original_path,
     vault_path |-> join(cfg.vault_dir, original_path)]

Dotfile_new(original_path, cfg) ==
    LET sp == strip_prefix(original_path, cfg.home_dir)
        relative_path == IF sp.ok THEN sp.path ELSE original_path
    IN [original_path |-> original_path,
        vault_path |-> join(cfg.vault_dir, relative_path)]

(* Mutant: the vault directory is walked like the rest. *)
find_dotfiles_no_exclusion(cfg, f) ==
    {Dotfile_new(path, cfg) :
        path \in {q \in WalkDir(f, cfg.home_dir) : is_dotfile(q) /\ is_file(f, q)}}

find_dotfiles(cfg, f) ==
    {Dotfile_new(path, cfg) :
        path \in {q \in WalkDir(f, cfg.home_dir) :
                     /\ ~starts_with(q, cfg.vault_dir)
                     /\ is_dotfile(q)
                     /\ is_file(f, q)}}

backup_dotfile(f, dotfile, sc) ==
    LET mk == IF HasParent(dotfile.vault_path)
              THEN create_dir_all(f, parent(dotfile.vault_path))
              ELSE [ok |-> TRUE, fs |-> f]
    IN IF ~mk.ok THEN [ok |-> FALSE, fs |-> f]
       ELSE fs_copy(mk.fs, dotfile.original_path, dotfile.vault_path, sc)

(* The walk yields a directory's entries in the order the file system lists
   them: any order in which every directory's subtree is contiguous. *)
RECURSIVE Enumerations(_)
Enumerations(S) ==
    IF S = {} THEN {<<>>}
    ELSE UNION {{<<x>> \o s : s \in Enumerations(S \ {x})} : x \in S}

IsTreeWalkOrder(s) ==
    \A i, j, k \in 1..Len(s) :
        (i < j /\ j < k) =>
            \A n \in 1..(Len(s[i].original_path) - 1) :
                LET dir == SubSeq(s[i].original_path, 1, n)
                IN starts_with(s[k].original_path, dir)
                       => starts_with(s[j].original_path, dir)

TreeWalkOrders(S) == {s \in Enumerations(S) : IsTreeWalkOrder(s)}

(* The loop of backup_all_dotfiles over the discovered entries, from entry i:
   the first failure ends it.  copied: original path |-> the data read. *)
RECURSIVE backup_each(_, _, _, _, _)
backup_each(f, dotfiles, i, sc, copied) ==
    IF i > Len(dotfiles) THEN [res |-> Ok(<<>>), fs |-> f, copied |-> copied]
    ELSE LET b == backup_dotfile(f, dotfiles[i], sc)
         IN IF ~b.ok THEN [res |-> Err("Io", <<>>), fs |-> b.fs, copied |-> copied]
            ELSE backup_each(b.fs, dotfiles, i + 1, sc,
                             Put(copied, dotfiles[i].original_path,
                                 f[dotfiles[i].original_path].data))

(* Mutant: the vault is made a mirror of the home directory, the copies of
   dotfiles that are gone from it are removed. *)
backup_all_dotfiles_mirror(cfg, f, dotfiles, sc) ==
    LET iv == init_vault_dir(cfg, f)
        b == backup_each(iv.fs, dotfiles, 1, sc, <<>>)
        kept == {dotfiles[i].vault_path : i \in 1..Len(dotfiles)}
        stale == {p \in DOMAIN b.fs :
                     /\ is_file(b.fs, p)
                     /\ starts_with(p, cfg.vault_dir)
                     /\ is_dotfile(p)
                     /\ p \notin kept}
    IN IF ~iv.ok THEN [res |-> Err("Io", <<>>), fs |-> f, copied |-> <<>>]
       ELSE [b EXCEPT !.fs = [p \in DOMAIN b.fs \ stale |-> b.fs[p]]]

backup_all_dotfiles(cfg, f, dotfiles, sc) ==
    LET iv == init_vault_dir(cfg, f)
    IN IF ~iv.ok THEN [res |-> Err("Io", <<>>), fs |-> f, copied |-> <<>>]
       ELSE backup_each(iv.fs, dotfiles, 1, sc, <<>>)

(* Mutant: a missing file is skipped like a file that is no dotfile. *)
backup_specific_file_skip_missing(cfg, f, file_str, sc) ==
    LET path == IF is_absolute(file_str) THEN file_str
                ELSE join(cfg.home_dir, file_str)
        dotfile == Dotfile_new(path, cfg)
        b == backup_dotfile(f, dotfile, sc)
    IN IF ~exists(f, path) \/ ~is_dotfile(path)
       THEN [cont |-> TRUE, res |-> Ok(<<>>), fs |-> f,
             copied |-> <<>>, entries |-> {}]
       ELSE IF ~b.ok
       THEN [cont |-> FALSE, res |-> Err("Io", <<>>), fs |-> b.fs,
             copied |-> <<>>, entries |-> {dotfile}]
       ELSE [cont |-> TRUE, res |-> Ok(<<>>), fs |-> b.fs,
             copied |-> Put(<<>>, path, f[path].data), entries |-> {dotfile}]

(* One iteration of the loop of backup_specific_dotfiles, on file_str.
   cont: the loop goes on to the next file string. *)
backup_specific_file(cfg, f, file_str, sc) ==
    LET path == IF is_absolute(file_str) THEN file_str
                ELSE join(cfg.home_dir, file_str)
        dotfile == Dotfile_new(path, cfg)
        b == backup_dotfile(f, dotfile, sc)
    IN IF ~exists(f, path)
       THEN [cont |-> FALSE, res |-> Err("DotfileNotFound", file_str), fs |-> f,
             copied |-> <<>>, entries |-> {}]
       ELSE IF ~is_dotfile(path)
       THEN [cont |-> TRUE, res |-> Ok(<<>>), fs |-> f,
             copied |-> <<>>, entries |-> {}]
       ELSE IF ~b.ok
       THEN [cont |-> FALSE, res |-> Err("Io", <<>>), fs |-> b.fs,
             copied |-> <<>>, entries |-> {dotfile}]
       ELSE [cont |-> TRUE, res |-> Ok(<<>>), fs |-> b.fs,
             copied |-> Put(<<>>, path, f[path].data), entries |-> {dotfile}]

---------------------------------------------------------------------------
(* restore.rs *)

(* Mutant: the parent directories are created before the vault is looked at. *)
restore_dotfile_mkdir_first(f, dotfile, sc) ==
    LET mk == IF HasParent(dotfile.original_path)
              THEN create_dir_all(f, parent(dotfile.original_path))
              ELSE [ok |-> TRUE, fs |-> f]
        cp == fs_copy(mk.fs, dotfile.vault_path, dotfile.original_path, sc)
    IN IF ~mk.ok THEN [res |-> Err("Io", <<>>), fs |-> f]
       ELSE IF ~exists(f, dotfile.vault_path)
       THEN [res |-> Err("DotfileNotFound", dotfile.original_path), fs |-> mk.fs]
       ELSE IF ~cp.ok THEN [res |-> Err("Io", <<>>), fs |-> cp.fs]
       ELSE [res |-> Ok(<<>>), fs |-> cp.fs]

restore_dotfile(f, dotfile, sc) ==
    IF ~exists(f, dotfile.vault_path)
    THEN [res |-> Err("DotfileNotFound", dotfile.original_path), fs |-> f]
    ELSE LET mk == IF HasParent(dotfile.original_path)
                   THEN create_dir_all(f, parent(dotfile.original_path))
                   ELSE [ok |-> TRUE, fs |-> f]
             cp == fs_copy(mk.fs, dotfile.vault_path, dotfile.original_path, sc)
         IN IF ~mk.ok THEN [res |-> Err("Io", <<>>), fs |-> f]
            ELSE IF ~cp.ok THEN [res |-> Err("Io", <<>>), fs |-> cp.fs]
            ELSE [res |-> Ok(<<>>), fs |-> cp.fs]

(* Mutant: the path is restored whatever its name is. *)
restore_specific_dotfile_any_name(cfg, f, file_path, sc) ==
    LET path == IF is_absolute(file_path) THEN file_path
                ELSE join(cfg.home_dir, file_path)
        dotfile == Dotfile_new(path, cfg)
        r == restore_dotfile(f, dotfile, sc)
    IN [res |-> r.res, fs |-> r.fs, entries |-> {dotfile}]

restore_specific_dotfile(cfg, f, file_path, sc) ==
    LET path == IF is_absolute(file_path) THEN file_path
                ELSE join(cfg.home_dir, file_path)
    IN IF ~is_dotfile(path) THEN [res |-> Ok(<<>>), fs |-> f, entries |-> {}]
       ELSE LET dotfile == Dotfile_new(path, cfg)
                r == restore_dotfile(f, dotfile, sc)
            IN [res |-> r.res, fs |-> r.fs, entries |-> {dotfile}]

(* main.rs, Commands::Restore: the process exits with 1 when a version is
   given or the restore fails, and with 0 otherwise. *)
NoVersion == "none"
Versions == {NoVersion, "v1"}

(* Mutant: the version is not looked at. *)
restore_command_any_version(cfg, f, file, version, sc) ==
    LET r == restore_specific_dotfile(cfg, f, file, sc)
    IN [res |-> IF r.res.ok THEN Ok(0) ELSE Err("exit", 1),
        fs |-> r.fs, entries |-> r.entries]

restore_command(cfg, f, file, version, sc) ==
    LET r == restore_specific_dotfile(cfg, f, file, sc)
    IN IF version # NoVersion
       THEN [res |-> Err("exit", 1), fs |-> f, entries |-> {}]
       ELSE [res |-> IF r.res.ok THEN Ok(0) ELSE Err("exit", 1),
             fs |-> r.fs, entries |-> r.entries]

(* Mutant: only the dotfiles of the vault are listed. *)
list_backed_up_dotfiles_filtered(cfg, f) ==
    IF ~exists(f, cfg.vault_dir) THEN Err("NoDotfilesVaultDir", <<>>)
    ELSE Ok({strip_prefix(path, cfg.vault_dir).path :
                path \in {q \in WalkDir(f, cfg.vault_dir) :
                             is_file(f, q) /\ is_dotfile(q)}})

(* The listing's order is the walk's; it is kept as the set of its paths. *)
list_backed_up_dotfiles(cfg, f) ==
    IF ~exists(f, cfg.vault_dir) THEN Err("NoDotfilesVaultDir", <<>>)
    ELSE Ok({strip_prefix(path, cfg.vault_dir).path :
                path \in {q \in WalkDir(f, cfg.vault_dir) : is_file(f, q)}})

---------------------------------------------------------------------------
(* history.rs, and the git2 operations it calls.  A commit is identified by
   its position in repo.commits; a tree and the index are kept as the set of
   the vault-relative paths they hold. *)

EmptyRepo == [head |-> 0, commits |-> <<>>, index |-> {}]

GitDir(cfg) == cfg.vault_dir \o <<N_git>>

EndsWith(name, suffix) ==
    /\ Len(name) >= Len(suffix)
    /\ SubSeq(name, Len(name) - Len(suffix) + 1, Len(name)) = suffix

(* The name suffixes the patterns of an ignore file exclude ("*.tmp") *)
IgnoreSuffixes(data) ==
    IF data = DefaultIgnoreText
    THEN {<<".", "t", "m", "p">>, <<".", "b", "a", "k">>}
    ELSE {}

(* A path is ignored when a .gitignore in one of its directories holds a
   pattern matching one of its components below that directory. *)
is_ignored(cfg, f, key) ==
    \E k \in 0..(Len(key) - 1) :
        LET gi == cfg.vault_dir \o SubSeq(key, 1, k) \o <<N_gitignore>>
        IN /\ is_file(f, gi)
           /\ \E suffix \in IgnoreSuffixes(f[gi].data) :
                  \E i \in (k + 1)..Len(key) : EndsWith(key[i], suffix)

WorkdirFiles(cfg, f) ==
    {strip_prefix(path, cfg.vault_dir).path :
        path \in {q \in WalkDir(f, cfg.vault_dir) :
                     is_file(f, q) /\ ~starts_with(q, GitDir(cfg))}}

(* Mutant: IndexAddOption::FORCE, the ignored files are added too. *)
add_all_force(cfg, f, index) == WorkdirFiles(cfg, f)

(* index.add_all(["*"], DEFAULT): every file of the working tree that is not
   ignored is added; a file the index already holds is updated, ignored or
   not, and an entry whose file is gone from the working tree is removed. *)
add_all(cfg, f, index) ==
    (index \cap WorkdirFiles(cfg, f))
        \cup {key \in WorkdirFiles(cfg, f) : ~is_ignored(cfg, f, key)}

init_git_repo(cfg, f) ==
    IF exists(f, GitDir(cfg)) THEN [ok |-> TRUE, err |-> "", fs |-> f]
    ELSE LET mk == create_dir_all(f, GitDir(cfg))
             withHead == Put(mk.fs, GitDir(cfg) \o <<N_HEAD>>, FileNode(GitHeadText))
             gitignore_path == cfg.vault_dir \o <<N_gitignore>>
         IN IF ~mk.ok THEN [ok |-> FALSE, err |-> "Git", fs |-> f]
            ELSE IF is_dir(withHead, gitignore_path)
            THEN [ok |-> FALSE, err |-> "Io", fs |-> withHead]
            ELSE [ok |-> TRUE, err |-> "",
                  fs |-> Put(withHead, gitignore_path, FileNode(DefaultIgnoreText))]

(* Mutant: the commit is made without a parent. *)
commit_changes_no_parent(cfg, f, r, message) ==
    LET g == init_git_repo(cfg, f)
        index == add_all(cfg, g.fs, r.index)
        commit_id == Len(r.commits) + 1
        commit == [message |-> message, tree |-> index, parent |-> 0]
    IN IF ~g.ok THEN [res |-> Err(g.err, <<>>), fs |-> g.fs, repo |-> r]
       ELSE [res |-> Ok(commit_id), fs |-> g.fs,
             repo |-> [head |-> commit_id,
                       commits |-> Append(r.commits, commit),
                       index |-> index]]

commit_changes(cfg, f, r, message) ==
    LET g == init_git_repo(cfg, f)
        index == add_all(cfg, g.fs, r.index)
        commit_id == Len(r.commits) + 1
        commit == [message |-> message, tree |-> index, parent |-> r.head]
    IN IF ~g.ok THEN [res |-> Err(g.err, <<>>), fs |-> g.fs, repo |-> r]
       ELSE [res |-> Ok(commit_id), fs |-> g.fs,
             repo |-> [head |-> commit_id,
                       commits |-> Append(r.commits, commit),
                       index |-> index]]

(* tree.get_path(): the tree holds an entry, a file or a directory, at rel *)
tree_get_path(tree, rel) ==
    Len(rel) > 0 /\ \E key \in tree : IsPrefix(rel, key)

(* Mutant: the walk stops at the head commit. *)
revwalk_head_only(r, oid) == IF oid = 0 THEN <<>> ELSE <<oid>>

(* revwalk.push_head(): the commits from the head back through the parents *)
RECURSIVE revwalk(_, _)
revwalk(r, oid) ==
    IF oid = 0 THEN <<>> ELSE <<oid>> \o revwalk(r, r.commits[oid].parent)

(* Mutant: only the commits that added the file are reported. *)
get_dotfile_history_changes_only(cfg, f, r, dotfile_path) ==
    LET path == IF is_absolute(dotfile_path) THEN dotfile_path
                ELSE join(cfg.home_dir, dotfile_path)
        dotfile == Dotfile_new(path, cfg)
        rel == strip_prefix(dotfile.vault_path, cfg.vault_dir)
        walk == revwalk(r, r.head)
        hits == SelectSeq(walk, LAMBDA oid :
                    /\ tree_get_path(r.commits[oid].tree, rel.path)
                    /\ \/ r.commits[oid].parent = 0
                       \/ ~tree_get_path(r.commits[r.commits[oid].parent].tree, rel.path))
        versions == [i \in 1..Len(hits) |->
                        [commit_id |-> hits[i],
                         message |-> r.commits[hits[i]].message]]
    IN IF ~rel.ok THEN Err("DotfileNotFound", dotfile_path)
       ELSE IF ~exists(f, dotfile.vault_path) THEN Err("DotfileNotFound", dotfile_path)
       ELSE IF ~exists(f, GitDir(cfg)) THEN Err("NoDotfilesVaultDir", <<>>)
       ELSE IF r.head = 0 THEN Err("Git", <<>>)
       ELSE Ok(versions)

(* Mutant: the vault file is not looked for. *)
get_dotfile_history_any_file(cfg, f, r, dotfile_path) ==
    LET path == IF is_absolute(dotfile_path) THEN dotfile_path
                ELSE join(cfg.home_dir, dotfile_path)
        dotfile == Dotfile_new(path, cfg)
        rel == strip_prefix(dotfile.vault_path, cfg.vault_dir)
        walk == revwalk(r, r.head)
        hits == SelectSeq(walk, LAMBDA oid : tree_get_path(r.commits[oid].tree, rel.path))
        versions == [i \in 1..Len(hits) |->
                        [commit_id |-> hits[i],
                         message |-> r.commits[hits[i]].message]]
    IN IF ~rel.ok THEN Err("DotfileNotFound", dotfile_path)
       ELSE IF ~exists(f, GitDir(cfg)) THEN Err("NoDotfilesVaultDir", <<>>)
       ELSE IF r.head = 0 THEN Err("Git", <<>>)
       ELSE Ok(versions)

(* Mutant: the repository is opened before the vault file is looked for. *)
get_dotfile_history_open_first(cfg, f, r, dotfile_path) ==
    LET path == IF is_absolute(dotfile_path) THEN dotfile_path
                ELSE join(cfg.home_dir, dotfile_path)
        dotfile == Dotfile_new(path, cfg)
        rel == strip_prefix(dotfile.vault_path, cfg.vault_dir)
        walk == revwalk(r, r.head)
        hits == SelectSeq(walk, LAMBDA oid : tree_get_path(r.commits[oid].tree, rel.path))
        versions == [i \in 1..Len(hits) |->
                        [commit_id |-> hits[i],
                         message |-> r.commits[hits[i]].message]]
    IN IF ~exists(f, GitDir(cfg)) THEN Err("NoDotfilesVaultDir", <<>>)
       ELSE IF ~rel.ok THEN Err("DotfileNotFound", dotfile_path)
       ELSE IF ~exists(f, dotfile.vault_path) THEN Err("DotfileNotFound", dotfile_path)
       ELSE IF r.head = 0 THEN Err("Git", <<>>)
       ELSE Ok(versions)

get_dotfile_history(cfg, f, r, dotfile_path) ==
    LET path == IF is_absolute(dotfile_path) THEN dotfile_path
                ELSE join(cfg.home_dir, dotfile_path)
        dotfile == Dotfile_new(path, cfg)
        rel == strip_prefix(dotfile.vault_path, cfg.vault_dir)
        walk == revwalk(r, r.head)
        hits == SelectSeq(walk, LAMBDA oid : tree_get_path(r.commits[oid].tree, rel.path))
        versions == [i \in 1..Len(hits) |->
                        [commit_id |-> hits[i],
                         message |-> r.commits[hits[i]].message]]
    IN IF ~rel.ok THEN Err("DotfileNotFound", dotfile_path)
       ELSE IF ~exists(f, dotfile.vault_path) THEN Err("DotfileNotFound", dotfile_path)
       ELSE IF ~exists(f, GitDir(cfg)) THEN Err("NoDotfilesVaultDir", <<>>)
       ELSE IF r.head = 0 THEN Err("Git", <<>>)
       ELSE Ok(versions)

---------------------------------------------------------------------------
(* Inputs.  A run starts from one of a few home trees: the directory .c and
   the regular files r and .c/r, and the dotfiles of the scenario; the vault
   does not exist yet or, as the tests set it up, is an empty directory.  The
   commands of a run are given the scenario's path strings, and the user may
   remove from the vault the copies the scenario names.  The roots are laid out as Config::default does (the vault inside
   the home directory) or as the tests do (the vault beside it). *)

HomeDir == <<RootDir, N_home>>
OutDir == <<RootDir, N_out>>

DefaultConfig == [home_dir |-> HomeDir, vault_dir |-> HomeDir \o <<N_vault>>]
TestConfig == [home_dir |-> HomeDir, vault_dir |-> <<RootDir, N_vault>>]

S_a == <<N_a>>
S_r == <<N_r>>
S_c == <<N_c>>
S_cn == <<N_c, N_n>>
S_cr == <<N_c, N_r>>
S_m == <<N_m>>
S_mn == <<N_m, N_n>>
S_tmp == <<N_tmp>>
S_gitignore == <<N_gitignore>>
S_va == <<N_vault, N_a>>
S_out == <<RootDir, N_out, N_a>>
S_gitHEAD == <<N_git, N_HEAD>>

Scenarios ==
    {[config |-> DefaultConfig, dotfiles |-> {HomeDir \o S_a},
      inputs |-> {S_a, S_r, S_m, S_va}, made |-> {},
      removable |-> {DefaultConfig.vault_dir \o S_a}],
     [config |-> TestConfig, dotfiles |-> {HomeDir \o S_a},
      inputs |-> {S_a, S_r, S_m}, made |-> {},
      removable |-> {TestConfig.vault_dir \o S_a}],
     [config |-> TestConfig, dotfiles |-> {HomeDir \o S_a},
      inputs |-> {S_a, S_r}, made |-> {TestConfig.vault_dir}, removable |-> {}],
     [config |-> DefaultConfig, dotfiles |-> {HomeDir \o S_cn},
      inputs |-> {S_cn, S_c, S_cr}, made |-> {}, removable |-> {}],
     [config |-> DefaultConfig, dotfiles |-> {HomeDir \o S_tmp},
      inputs |-> {S_tmp, S_mn}, made |-> {}, removable |-> {}],
     [config |-> DefaultConfig, dotfiles |-> {HomeDir \o S_gitignore},
      inputs |-> {S_gitignore, S_r, S_gitHEAD}, made |-> {}, removable |-> {}],
     [config |-> DefaultConfig, dotfiles |-> {S_out},
      inputs |-> {S_out, S_m}, made |-> {}, removable |-> {}],
     [config |-> DefaultConfig, dotfiles |-> {HomeDir \o S_a, HomeDir \o S_cn},
      inputs |-> {S_a, S_cn}, made |-> {}, removable |-> {}],
     [config |-> DefaultConfig, dotfiles |-> {HomeDir \o S_gitignore, HomeDir \o S_tmp},
      inputs |-> {S_gitignore, S_tmp}, made |-> {}, removable |-> {}]}

InitFs(dotfiles, made) ==
    LET dirs == {<<RootDir>>, HomeDir, OutDir, HomeDir \o S_c} \cup made
        regular == {HomeDir \o S_r, HomeDir \o S_cr}
    IN [p \in dirs \cup regular \cup dotfiles |->
           IF p \in dirs THEN DirNode ELSE FileNode("A")]

Messages == <<"m1", "m2", "m3", "m4">>

Idle ==
    [op |-> "idle", arg |-> <<>>, res |-> Ok(<<>>), entries |-> {},
     fresh |-> FALSE, running |-> FALSE, n |-> 0]

Done(op, arg, res, entries, fresh) ==
    [op |-> op, arg |-> arg, res |-> res, entries |-> entries,
     fresh |-> fresh, running |-> FALSE, n |-> 0]

Resolve(cfg, s) == IF is_absolute(s) THEN s ELSE join(cfg.home_dir, s)

Merge(m, n) ==
    [k \in DOMAIN m \cup DOMAIN n |-> IF k \in DOMAIN n THEN n[k] ELSE m[k]]

(* cyc follows the run while it consists of cycles on cyc.file, each a
   modification of the file, a backup of it and a commit, with nothing else in
   between but commands that only read; cyc.n counts the complete cycles. *)
CycleOff == [phase |-> "off", n |-> 0, file |-> <<>>]

ReadOnlyOps == {"find_dotfiles", "list", "history", "return"}

CycleTrack(c, op, arg, ok) ==
    IF c.phase = "off" \/ op \in ReadOnlyOps THEN c
    ELSE IF op = "write" /\ c.phase = "modify" /\ arg = c.file
    THEN [c EXCEPT !.phase = "backup"]
    ELSE IF op = "backup_all" /\ c.phase = "backup" /\ ok
    THEN [c EXCEPT !.phase = "commit"]
    ELSE IF op = "backup_specific_begin" /\ c.phase = "backup" /\ ok
    THEN [c EXCEPT !.phase = "file"]
    ELSE IF op = "backup_specific_file" /\ c.phase = "file" /\ arg = c.file /\ ok
    THEN [c EXCEPT !.phase = "end"]
    ELSE IF op = "backup_specific_end" /\ c.phase = "end"
    THEN [c EXCEPT !.phase = "commit"]
    ELSE IF op = "commit" /\ c.phase = "commit" /\ ok
    THEN [c EXCEPT !.phase = "modify", !.n = c.n + 1]
    ELSE CycleOff

InitRun ==
    \E sc \in Scenarios :
        /\ config = sc.config
        /\ inputs = sc.inputs
        /\ removable = sc.removable
        /\ fs = InitFs(sc.dotfiles, sc.made)
    /\ repo = EmptyRepo
    /\ last = Idle
    /\ backedUp = <<>>
    /\ recent = {}
    /\ backupRun = FALSE

Init ==
    /\ InitRun
    /\ \/ cyc = CycleOff
       \/ \E d \in find_dotfiles(config, fs) :
              cyc = [phase |-> "modify", n |-> 0, file |-> d.original_path]

---------------------------------------------------------------------------
(* The user edits a dotfile between two commands. *)

UserFiles ==
    {p \in DOMAIN fs :
        is_file(fs, p) /\ is_dotfile(p) /\ ~starts_with(p, config.vault_dir)}

UserWrite(p, d) ==
    /\ last.op = "idle"
    /\ p \in UserFiles
    /\ fs[p].data # d
    /\ fs' = Put(fs, p, FileNode(d))
    /\ recent' = {}
    /\ UNCHANGED <<config, repo, last, inputs, removable, backedUp>>
    /\ UNCHANGED backupRun
    /\ cyc' = CycleTrack(cyc, "write", p, TRUE)

UserDelete(p) ==
    /\ last.op = "idle"
    /\ p \in UserFiles
    /\ fs' = [q \in DOMAIN fs \ {p} |-> fs[q]]
    /\ recent' = {}
    /\ UNCHANGED <<config, repo, last, inputs, removable, backedUp>>
    /\ UNCHANGED backupRun
    /\ cyc' = CycleTrack(cyc, "delete", p, TRUE)

(* The user removes a backed-up copy from the vault, one of those the run
   lets them remove.  The files of the log are left alone. *)
VaultCopies ==
    {p \in removable : is_file(fs, p) /\ starts_with(p, config.vault_dir)}

UserDeleteVaultCopy(p) ==
    /\ last.op = "idle"
    /\ p \in VaultCopies
    /\ fs' = [q \in DOMAIN fs \ {p} |-> fs[q]]
    /\ recent' = {}
    /\ UNCHANGED <<config, repo, last, inputs, removable, backedUp>>
    /\ UNCHANGED backupRun
    /\ cyc' = CycleTrack(cyc, "delete", p, TRUE)

(* The operations of the library.  Each runs to completion before anything
   else happens: the other actions wait for last.op = "idle". *)

FindDotfiles ==
    /\ last.op = "idle"
    /\ last' = Done("find_dotfiles", <<>>, Ok(find_dotfiles(config, fs)),
                    find_dotfiles(config, fs), FALSE)
    /\ recent' = {}
    /\ UNCHANGED <<config, fs, repo, inputs, removable, backedUp>>
    /\ UNCHANGED backupRun
    /\ cyc' = CycleTrack(cyc, "find_dotfiles", <<>>, TRUE)

BackupAll ==
    /\ last.op = "idle"
    /\ \E dotfiles \in TreeWalkOrders(find_dotfiles(config, fs)) :
       \E sc \in SelfCopyOutcomes :
          LET b == backup_all_dotfiles(config, fs, dotfiles, sc)
          IN /\ fs' = b.fs
             /\ backedUp' = Merge(backedUp, b.copied)
             /\ recent' = DOMAIN b.copied
             /\ last' = Done("backup_all", <<>>, b.res,
                             find_dotfiles(config, fs), FALSE)
    /\ UNCHANGED <<config, repo, inputs, removable>>
    /\ backupRun' = TRUE
    /\ cyc' = CycleTrack(cyc, "backup_all", <<>>, last'.res.ok)

(* backup_specific_dotfiles: the vault directory, then one step for each file
   string of the list, in order, until one fails or the list ends.  last.arg
   is the file string handled last and last.n the number handled. *)
BackupSpecificBegin ==
    /\ last.op = "idle"
    /\ LET iv == init_vault_dir(config, fs)
       IN /\ fs' = iv.fs
          /\ last' = [op |-> "backup_specific", arg |-> <<>>,
                      res |-> IF iv.ok THEN Ok(<<>>) ELSE Err("Io", <<>>),
                      entries |-> {}, fresh |-> FALSE, running |-> iv.ok, n |-> 0]
    /\ recent' = {}
    /\ UNCHANGED <<config, repo, inputs, removable, backedUp>>
    /\ backupRun' = TRUE
    /\ cyc' = CycleTrack(cyc, "backup_specific_begin", <<>>, last'.res.ok)

BackupSpecificFile(file_str) ==
    /\ last.op = "backup_specific"
    /\ last.running
    /\ last.n < MaxList
    /\ \E sc \in SelfCopyOutcomes :
          LET b == backup_specific_file(config, fs, file_str, sc)
          IN /\ fs' = b.fs
             /\ backedUp' = Merge(backedUp, b.copied)
             /\ recent' = recent \cup DOMAIN b.copied
             /\ last' = [op |-> "backup_specific", arg |-> file_str, res |-> b.res,
                         entries |-> last.entries \cup b.entries, fresh |-> FALSE,
                         running |-> b.cont, n |-> last.n + 1]
    /\ UNCHANGED <<config, repo, inputs, removable>>
    /\ UNCHANGED backupRun
    /\ cyc' = CycleTrack(cyc, "backup_specific_file", Resolve(config, file_str), last'.res.ok)

BackupSpecificEnd ==
    /\ last.op = "backup_specific"
    /\ last.running
    /\ last' = [last EXCEPT !.running = FALSE]
    /\ UNCHANGED <<config, fs, repo, inputs, removable, backedUp, recent>>
    /\ UNCHANGED backupRun
    /\ cyc' = CycleTrack(cyc, "backup_specific_end", <<>>, TRUE)

(* The files of f that g no longer holds with the same content. *)
Overwritten(f, g) ==
    {p \in DOMAIN f : is_file(f, p) /\ (~is_file(g, p) \/ g[p].data # f[p].data)}

Commit ==
    /\ last.op = "idle"
    /\ Len(repo.commits) < MaxCommits
    /\ LET message == Messages[Len(repo.commits) + 1]
           c == commit_changes(config, fs, repo, message)
       IN /\ fs' = c.fs
          /\ repo' = c.repo
          /\ last' = Done("commit", message, c.res, {}, FALSE)
                         @@ [overwritten |-> Overwritten(fs, c.fs)]
    /\ recent' = {}
    /\ UNCHANGED <<config, inputs, removable, backedUp>>
    /\ UNCHANGED backupRun
    /\ cyc' = CycleTrack(cyc, "commit", <<>>, last'.res.ok)

RestoreOne(s) ==
    /\ last.op = "idle"
    /\ \E sc \in SelfCopyOutcomes :
          LET dotfile == Dotfile_new(Resolve(config, s), config)
              r == restore_dotfile(fs, dotfile, sc)
          IN /\ fs' = r.fs
             /\ last' = Done("restore_dotfile", s, r.res, {dotfile},
                             dotfile.original_path \in recent)
    /\ recent' = {}
    /\ UNCHANGED <<config, repo, inputs, removable, backedUp>>
    /\ UNCHANGED backupRun
    /\ cyc' = CycleTrack(cyc, "restore_dotfile", s, TRUE)

RestoreByPath(s) ==
    /\ last.op = "idle"
    /\ \E sc \in SelfCopyOutcomes :
          LET r == restore_specific_dotfile(config, fs, s, sc)
          IN /\ fs' = r.fs
             /\ last' = Done("restore_specific", s, r.res, r.entries,
                             Resolve(config, s) \in recent)
    /\ recent' = {}
    /\ UNCHANGED <<config, repo, inputs, removable, backedUp>>
    /\ UNCHANGED backupRun
    /\ cyc' = CycleTrack(cyc, "restore_specific", s, TRUE)

(* The restore command of the program, which runs with Config::default() *)
RestoreCommand(s, version) ==
    /\ last.op = "idle"
    /\ config = DefaultConfig
    /\ \E sc \in SelfCopyOutcomes :
          LET r == restore_command(config, fs, s, version, sc)
          IN /\ fs' = r.fs
             /\ last' = [op |-> "restore_command", arg |-> s, version |-> version,
                         res |-> r.res, entries |-> r.entries, fresh |-> FALSE,
                         running |-> FALSE, n |-> 0]
    /\ recent' = {}
    /\ UNCHANGED <<config, repo, inputs, removable, backedUp>>
    /\ UNCHANGED backupRun
    /\ cyc' = CycleTrack(cyc, "restore_command", s, TRUE)

ListVaultEntries ==
    /\ last.op = "idle"
    /\ last' = Done("list", <<>>, list_backed_up_dotfiles(config, fs), {}, FALSE)
    /\ recent' = {}
    /\ UNCHANGED <<config, fs, repo, inputs, removable, backedUp>>
    /\ UNCHANGED backupRun
    /\ cyc' = CycleTrack(cyc, "list", <<>>, TRUE)

GetHistory(s) ==
    /\ last.op = "idle"
    /\ last' = Done("history", s, get_dotfile_history(config, fs, repo, s),
                    {Dotfile_new(Resolve(config, s), config)}, FALSE)
    /\ recent' = {}
    /\ UNCHANGED <<config, fs, repo, inputs, removable, backedUp>>
    /\ UNCHANGED backupRun
    /\ cyc' = CycleTrack(cyc, "history", s, TRUE)

(* The command has reported its result and ended. *)
Return ==
    /\ last.op # "idle"
    /\ ~last.running
    /\ last' = Idle
    /\ UNCHANGED <<config, fs, repo, inputs, removable, backedUp, recent>>
    /\ UNCHANGED backupRun
    /\ cyc' = CycleTrack(cyc, "return", <<>>, TRUE)

Next ==
    \/ \E p \in DOMAIN fs : \E d \in UserData : UserWrite(p, d)
    \/ \E p \in DOMAIN fs : UserDelete(p)
    \/ \E p \in DOMAIN fs : UserDeleteVaultCopy(p)
    \/ FindDotfiles
    \/ BackupAll
    \/ BackupSpecificBegin
    \/ \E s \in inputs : BackupSpecificFile(s)
    \/ BackupSpecificEnd
    \/ Commit
    \/ \E s \in inputs : RestoreOne(s)
    \/ \E s \in inputs : RestoreByPath(s)
    \/ \E s \in inputs : \E version \in Versions : RestoreCommand(s, version)
    \/ ListVaultEntries
    \/ \E s \in inputs : GetHistory(s)
    \/ Return

Spec == Init /\ [][Next]_vars

---------------------------------------------------------------------------
(* Claims *)

Target == Resolve(config, last.arg)

(* The key of a path under the home root in the vault and in the trees *)
VaultKey(p) == strip_prefix(p, config.home_dir).path

(* The default ignore policy, "*.tmp" and "*.bak", matches a component *)
MatchesDefaultIgnore(key) ==
    \E i \in 1..Len(key) :
        \E suffix \in IgnoreSuffixes(DefaultIgnoreText) : EndsWith(key[i], suffix)

(* A history of cyc.file asked for after cyc.n complete cycles *)
HistoryAfterCycles ==
    /\ last.op = "history"
    /\ cyc.phase = "modify"
    /\ cyc.n >= 1
    /\ Target = cyc.file

(* The result holds cyc.n versions, latest first, with the messages given to
   the commits *)
HistoryMatchesCycles ==
    /\ last.res.ok
    /\ Len(last.res.val) = cyc.n
    /\ \A i \in 1..cyc.n :
           /\ last.res.val[i].message = Messages[cyc.n - i + 1]
           /\ last.res.val[i].commit_id = cyc.n - i + 1

(* C1, as claimed: after N cycles of (modify F, backup, commit) from an empty
   vault, the history of F holds exactly N versions, latest first, with the
   messages m_N, ..., m_1, for every dotfile F that Discovery collects. *)
C1_Original == HistoryAfterCycles => HistoryMatchesCycles

(* C1, amended: the same, for every dotfile F that Discovery collects and that
   the ignore policy of the snapshot log, "*.tmp" and "*.bak", does not exclude. *)
C1_HistoryCompleteness ==
    (HistoryAfterCycles /\ ~MatchesDefaultIgnore(VaultKey(cyc.file)))
        => HistoryMatchesCycles

C1_Witness ==
    /\ HistoryAfterCycles
    /\ cyc.n = 2
    /\ ~MatchesDefaultIgnore(VaultKey(cyc.file))
    /\ last.res.ok
    /\ Len(last.res.val) = 2

---------------------------------------------------------------------------

NothingPerformed == ~backupRun /\ Len(repo.commits) = 0

(* C2, as claimed: GetHistory, for any path, or ListVaultEntries called before
   any backup has been performed fails with NoDotfilesVaultDir. *)
C2_Original ==
    (last.op \in {"history", "list"} /\ ~backupRun)
        => (~last.res.ok /\ last.res.err = "NoDotfilesVaultDir")

(* C2, amended: before any backup or commit has been performed, GetHistory,
   for any path, fails with DotfileNotFound; ListVaultEntries fails with
   NoDotfilesVaultDir if the vault root does not exist, and returns the empty
   list if it does. *)
C2_MissingVaultGuard ==
    /\ (last.op = "history" /\ NothingPerformed)
           => last.res = Err("DotfileNotFound", last.arg)
    /\ (last.op = "list" /\ NothingPerformed)
           => IF exists(fs, config.vault_dir)
              THEN last.res.ok /\ last.res.val = {}
              ELSE last.res = Err("NoDotfilesVaultDir", <<>>)

C2_Witness ==
    /\ last.op = "history"
    /\ NothingPerformed
    /\ ~exists(fs, config.vault_dir)
    /\ last.res.err = "DotfileNotFound"

---------------------------------------------------------------------------

UnderHome(p) == starts_with(p, config.home_dir)

(* C3: a dotfile F under the home root is backed up and restored by the next
   command, with no modification in between: F's home content is the content
   the backup read. *)
C3_BackupRestoreRoundTrip ==
    (/\ last.op \in {"restore_specific", "restore_dotfile"}
     /\ last.fresh
     /\ UnderHome(Target))
        => /\ last.res.ok
           /\ is_file(fs, Target)
           /\ fs[Target].data = backedUp[Target]

C3_Witness ==
    /\ last.op = "restore_specific"
    /\ last.fresh
    /\ UnderHome(Target)
    /\ last.res.ok
    /\ fs[Target].data = "B"

---------------------------------------------------------------------------

(* C4: a successful RestoreByPath(F), for a backed-up dotfile F under the home
   root, sets F's home content to the content F had at its latest backup. *)
C4_RestoreLatestBackup ==
    (/\ last.op = "restore_specific"
     /\ last.res.ok
     /\ UnderHome(Target)
     /\ is_dotfile(Target)
     /\ Target \in DOMAIN backedUp)
        => /\ is_file(fs, Target)
           /\ fs[Target].data = backedUp[Target]

---------------------------------------------------------------------------

InVault(p) == starts_with(p, config.vault_dir)

(* C5: Discovery returns no entry whose original path lies inside the vault
   root, and BackupAll copies no file of the vault. *)
C5_DiscoveryExcludesVault ==
    /\ last.op = "find_dotfiles"
           => \A d \in last.res.val : ~InVault(d.original_path)
    /\ last.op = "backup_all"
           => /\ \A d \in last.entries : ~InVault(d.original_path)
              /\ \A p \in recent : ~InVault(p)

(* A backup of everything, run when the vault, inside the home root, held
   dotfiles already *)
C5_Witness ==
    /\ last.op = "backup_all"
    /\ recent # {}
    /\ UnderHome(config.vault_dir)
    /\ Len(repo.commits) >= 1
    /\ is_file(fs, config.vault_dir \o S_gitignore)

---------------------------------------------------------------------------

BaseNameHasDot(p) == p[Len(p)][1] = "."

Mirror(p) == config.vault_dir \o SubSeq(p, Len(config.home_dir) + 1, Len(p))

HomeFiles == {p \in DOMAIN fs : is_file(fs, p) /\ UnderHome(p) /\ ~InVault(p)}

HomeDotfiles == {p \in HomeFiles : BaseNameHasDot(p)}

(* C6: after a successful BackupAll the vault holds a copy with the same
   content, at the mirrored path, of exactly the regular files under the home
   root, outside the vault, whose base name begins with "."; no other file is
   copied (the vault holds nothing at the mirrored path of another file but,
   possibly, a file of the log), and no directory is an entry. *)
C6_BackupAllCopiesDotfiles ==
    (last.op = "backup_all" /\ last.res.ok)
        => /\ recent = HomeDotfiles
           /\ \A p \in HomeDotfiles :
                  is_file(fs, Mirror(p)) /\ fs[Mirror(p)].data = fs[p].data
           /\ \A p \in HomeFiles \ HomeDotfiles :
                  exists(fs, Mirror(p)) => starts_with(Mirror(p), GitDir(config))
           /\ \A d \in last.entries : is_file(fs, d.original_path)

(* A dotfile below the top level is copied, beside a file that is none in a
   directory whose name begins with "." *)
C6_Witness ==
    /\ last.op = "backup_all"
    /\ last.res.ok
    /\ \E p \in HomeDotfiles : Len(p) > Len(config.home_dir) + 1
    /\ \E p \in HomeFiles \ HomeDotfiles :
           Len(p) > Len(config.home_dir) + 1 /\ BaseNameHasDot(parent(p))

---------------------------------------------------------------------------

(* C7: the vault_path of every Dotfile constructed is a path under the vault
   root, whether or not the original path lies under the home root. *)
C7_VaultPathUnderVault ==
    \A d \in last.entries : starts_with(d.vault_path, config.vault_dir)

(* C8: for a path under the home root, stripping the vault root from the
   mapped vault path gives the path's suffix below the home root. *)
C8_MappingRoundTrip ==
    \A d \in last.entries :
        UnderHome(d.original_path)
            => LET back == strip_prefix(d.vault_path, config.vault_dir)
               IN /\ back.ok
                  /\ back.path = SubSeq(d.original_path, Len(config.home_dir) + 1,
                                        Len(d.original_path))

C8_Witness ==
    \E d \in last.entries :
        /\ UnderHome(d.original_path)
        /\ Len(d.original_path) > Len(config.home_dir) + 1

---------------------------------------------------------------------------

BackupSpecificFileDone ==
    /\ last.op = "backup_specific"
    /\ last'.op = "backup_specific"
    /\ last'.n = last.n + 1

(* C9: BackupSpecific handles its file strings in order.  At one whose path
   does not exist it fails with DotfileNotFound and copies nothing more: what
   was copied before stays.  One whose path exists and is no dotfile is
   skipped, nothing is copied for it, and the next one is handled. *)
C9_BackupSpecificFailFast ==
    [][/\ BackupSpecificFileDone =>
             LET path == Resolve(config, last'.arg)
             IN /\ ~exists(fs, path)
                       => /\ last'.res = Err("DotfileNotFound", last'.arg)
                          /\ ~last'.running
                          /\ fs' = fs
                /\ (exists(fs, path) /\ ~BaseNameHasDot(path))
                       => /\ last'.res.ok
                          /\ last'.running
                          /\ fs' = fs
       /\ (last.op = "backup_specific" /\ ~last.running) => fs' = fs]_vars

(* A list whose first file was copied and whose second is missing *)
C9_Witness ==
    /\ last.op = "backup_specific"
    /\ last.n >= 2
    /\ ~last.running
    /\ last.res.err = "DotfileNotFound"
    /\ \E d \in last.entries :
           /\ is_file(fs, d.vault_path)
           /\ d.vault_path # d.original_path
           /\ fs[d.vault_path].data = fs[d.original_path].data

---------------------------------------------------------------------------

(* C10: RestoreOne on an entry whose vault copy does not exist fails with
   DotfileNotFound and changes nothing: no file is written and no directory
   is created. *)
C10_RestoreMissingVaultCopy ==
    [][(/\ last'.op = "restore_dotfile"
        /\ last.op = "idle"
        /\ \A d \in last'.entries : ~exists(fs, d.vault_path))
           => /\ \A d \in last'.entries :
                     last'.res = Err("DotfileNotFound", d.original_path)
              /\ fs' = fs]_vars

C10_Witness ==
    /\ last.op = "restore_dotfile"
    /\ last.res.err = "DotfileNotFound"
    /\ \E d \in last.entries : ~exists(fs, parent(d.original_path))

---------------------------------------------------------------------------

RestoreByPathDone == last.op = "idle" /\ last'.op = "restore_specific"

(* C11: RestoreByPath on a path whose base name does not begin with "."
   returns success and changes nothing in the home tree, the vault or the
   log, whether or not the vault holds a file at the mapped path. *)
C11_RestoreNonDotfileNoOp ==
    [][(RestoreByPathDone /\ ~BaseNameHasDot(Resolve(config, last'.arg)))
           => /\ last'.res = Ok(<<>>)
              /\ fs' = fs
              /\ repo' = repo]_vars

(* The path .git/HEAD is no dotfile, and after a commit the vault holds a
   file at the path it maps to *)
C11_Witness ==
    /\ last.op = "restore_specific"
    /\ ~BaseNameHasDot(Target)
    /\ is_file(fs, config.vault_dir \o last.arg)
    /\ last.res.ok
    /\ ~exists(fs, Target)

---------------------------------------------------------------------------

(* C12: BackupAll and BackupSpecific change the vault only: after either, every
   file outside the vault that the command read still holds the content the
   command read from it. *)
C12_BackupMutatesOnlyVault ==
    last.op \in {"backup_all", "backup_specific"}
        => \A p \in recent :
               ~InVault(p) => (is_file(fs, p) /\ fs[p].data = backedUp[p])

---------------------------------------------------------------------------

CommitDone == last.op = "idle" /\ last'.op = "commit" /\ last'.res.ok

(* The files under the vault root, outside the directory of the log, by
   their paths below the vault root *)
VaultFilesOf(f) ==
    {SubSeq(p, Len(config.vault_dir) + 1, Len(p)) :
        p \in {q \in DOMAIN f : /\ is_file(f, q)
                                /\ InVault(q)
                                /\ ~starts_with(q, GitDir(config))}}

(* C13, as claimed: the tree of the snapshot a commit creates holds every
   file present under the vault root. *)
C13_Original ==
    (last.op = "commit" /\ last.res.ok)
        => VaultFilesOf(fs) \subseteq repo.commits[repo.head].tree

(* C13, amended: a commit adds exactly one snapshot, which becomes the head,
   with the given message; its parent is the previous head, none if it is the
   first; its tree holds exactly the files under the vault root, outside the
   directory of the log, that the ignore files do not exclude or that the
   snapshot before already held. *)
C13_CommitSnapshot ==
    [][CommitDone =>
          LET c == repo'.commits[repo'.head]
          IN /\ Len(repo'.commits) = Len(repo.commits) + 1
             /\ SubSeq(repo'.commits, 1, Len(repo.commits)) = repo.commits
             /\ repo'.head = Len(repo'.commits)
             /\ last'.res.val = repo'.head
             /\ c.parent = repo.head
             /\ c.message = last'.arg
             /\ c.tree = {k \in VaultFilesOf(fs') :
                             k \in repo.index \/ ~is_ignored(config, fs', k)}]_vars

(* A second snapshot, made while the vault holds a file the default policy
   excludes beside files it does not *)
C13_Witness ==
    /\ last.op = "commit"
    /\ last.res.ok
    /\ repo.head = 2
    /\ repo.commits[2].parent = 1
    /\ repo.commits[2].tree # {}
    /\ \E k \in VaultFilesOf(fs) : k \notin repo.commits[2].tree

---------------------------------------------------------------------------

RestoreCommandDone == last.op = "idle" /\ last'.op = "restore_command"

(* C14: the restore command given a version exits with 1 and restores
   nothing: the file tree, and with it the home file, is as it was. *)
C14_RestoreVersionErrors ==
    [][(RestoreCommandDone /\ last'.version # NoVersion)
           => /\ last'.res = Err("exit", 1)
              /\ fs' = fs
              /\ repo' = repo]_vars

(* A version is given for a dotfile whose vault copy differs from the home
   file: the latest copy is not restored *)
C14_Witness ==
    /\ last.op = "restore_command"
    /\ last.version # NoVersion
    /\ ~last.res.ok
    /\ is_file(fs, Target)
    /\ is_dotfile(Target)
    /\ UnderHome(Target)
    /\ is_file(fs, Mirror(Target))
    /\ fs[Mirror(Target)].data # fs[Target].data

---------------------------------------------------------------------------

(* Every regular file under the vault root, the files of the log included, by
   its path below the vault root *)
AllVaultFiles ==
    {SubSeq(p, Len(config.vault_dir) + 1, Len(p)) :
        p \in {q \in DOMAIN fs : is_file(fs, q) /\ InVault(q)}}

(* C15: ListVaultEntries fails with NoDotfilesVaultDir when the vault root
   does not exist; when it exists it returns the path below the vault root of
   every regular file of the vault, dotfile or not, and so, once a commit has
   been made, the files of the log (.git/HEAD) and the ignore file. *)
C15_ListEveryVaultFile ==
    last.op = "list"
        => IF exists(fs, config.vault_dir)
           THEN /\ last.res.ok
                /\ last.res.val = AllVaultFiles
                /\ Len(repo.commits) >= 1
                       => {S_gitHEAD, S_gitignore} \subseteq last.res.val
           ELSE last.res = Err("NoDotfilesVaultDir", <<>>)

(* After a backup and a commit the listing holds a backed-up dotfile beside
   the ignore file and a file of the log *)
C15_Witness ==
    /\ last.op = "list"
    /\ last.res.ok
    /\ Len(repo.commits) >= 1
    /\ \E p \in DOMAIN backedUp :
           /\ UnderHome(p)
           /\ VaultKey(p) # S_gitignore
           /\ {VaultKey(p), S_gitHEAD, S_gitignore} \subseteq last.res.val

---------------------------------------------------------------------------

GetHistoryDone == last.op = "idle" /\ last'.op = "history"

(* C16: GetHistory fails with DotfileNotFound when the vault path of the file
   is not under the vault root or no file exists there, whatever the
   snapshots hold; it fails with NoDotfilesVaultDir when the vault file exists
   and no commit has been made; and it changes nothing. *)
C16_HistoryErrorSelection ==
    [][GetHistoryDone =>
          \A d \in last'.entries :
              /\ (~InVault(d.vault_path) \/ ~exists(fs, d.vault_path))
                     => last'.res = Err("DotfileNotFound", last'.arg)
              /\ (/\ InVault(d.vault_path)
                  /\ exists(fs, d.vault_path)
                  /\ Len(repo.commits) = 0)
                     => last'.res = Err("NoDotfilesVaultDir", <<>>)
              /\ fs' = fs
              /\ repo' = repo]_vars

(* The vault file is gone while a snapshot holds it *)
C16_Witness ==
    /\ last.op = "history"
    /\ last.res.err = "DotfileNotFound"
    /\ UnderHome(Target)
    /\ ~exists(fs, Mirror(Target))
    /\ \E i \in 1..Len(repo.commits) : VaultKey(Target) \in repo.commits[i].tree

---------------------------------------------------------------------------

(* The snapshots whose tree holds an entry at the key.  Every snapshot is
   reachable from the head: a commit's parent is the head before it. *)
SnapshotsHolding(key) ==
    {i \in 1..Len(repo.commits) :
        \E k \in repo.commits[i].tree :
            Len(k) >= Len(key) /\ SubSeq(k, 1, Len(key)) = key}

(* C17: a successful GetHistory(F) returns one version for every snapshot
   whose tree holds F's key and none for a snapshot that lacks it, the latest
   first, each with the snapshot's message, whether the snapshot changed F or
   not. *)
C17_OneVersionPerSnapshot ==
    (last.op = "history" /\ last.res.ok /\ UnderHome(Target))
        => LET ids == SnapshotsHolding(VaultKey(Target))
               val == last.res.val
           IN /\ Len(val) = Cardinality(ids)
              /\ {val[i].commit_id : i \in 1..Len(val)} = ids
              /\ \A i \in 1..Len(val) :
                     val[i].message = repo.commits[val[i].commit_id].message
              /\ \A i, j \in 1..Len(val) :
                     i < j => val[i].commit_id > val[j].commit_id

(* Two snapshots hold F and both are reported *)
C17_Witness ==
    /\ last.op = "history"
    /\ last.res.ok
    /\ UnderHome(Target)
    /\ is_file(fs, Target)
    /\ SnapshotsHolding(VaultKey(Target)) = {1, 2}
    /\ Len(last.res.val) = 2

---------------------------------------------------------------------------

(* What GetHistory would return for the path string in a given state *)
HistoryOf(f, r, path_string) == get_dotfile_history(config, f, r, path_string)

IsSuffix(a, b) ==
    /\ Len(a) <= Len(b)
    /\ SubSeq(b, Len(b) - Len(a) + 1, Len(b)) = a

(* C18: over any step that changes the files or the log, for every path whose
   history can be read before and after it, the versions GetHistory returned before are a suffix of those it
   returns after: the same commit ids and messages in the same order. *)
C18_HistoryAppendOnly ==
    [][(fs' # fs \/ repo' # repo)
           => \A s \in inputs :
                  LET before == HistoryOf(fs, repo, s)
                      after == HistoryOf(fs', repo', s)
                  IN (before.ok /\ after.ok) => IsSuffix(before.val, after.val)]_vars

(* A second commit has put a version in front of the one the history held *)
C18_Witness ==
    /\ last.op = "commit"
    /\ last.res.ok
    /\ repo.head = 2
    /\ \E s \in inputs :
           /\ HistoryOf(fs, repo, s).ok
           /\ Len(HistoryOf(fs, repo, s).val) = 2
           /\ HistoryOf(fs, repo, s).val[2].commit_id = 1

---------------------------------------------------------------------------

(* A step of a command: the steps of the user leave last as it is. *)
ProgramStep ==
    <<last'.op, last'.n, last'.running>> # <<last.op, last.n, last.running>>

(* C19: no step of a command, backup, commit, restore, list or history,
   removes a file from the vault; and a dotfile under the home root whose
   vault copy exists is restored from it by RestoreByPath whether or not the
   home file still exists. *)
C19_VaultAppendOnly ==
    [][/\ ProgramStep =>
              \A p \in DOMAIN fs :
                  (InVault(p) /\ is_file(fs, p))
                      => (p \in DOMAIN fs' /\ is_file(fs', p))
       /\ RestoreByPathDone =>
              LET path == Resolve(config, last'.arg)
              IN (is_dotfile(path) /\ UnderHome(path) /\ is_file(fs, Mirror(path)))
                     => /\ last'.res.ok
                        /\ is_file(fs', path)
                        /\ fs'[path].data = fs[Mirror(path)].data]_vars

(* A dotfile was backed up and then removed from the home directory; a later
   BackupAll has left its copy in the vault *)
C19_Witness ==
    /\ last.op = "backup_all"
    /\ last.res.ok
    /\ \E p \in DOMAIN backedUp :
           /\ UnderHome(p)
           /\ ~exists(fs, p)
           /\ is_file(fs, Mirror(p))
           /\ fs[Mirror(p)].data = backedUp[p]

---------------------------------------------------------------------------

(* C20: a commit, the first one included, leaves every file a backup has put
   in the vault with the content it had before the commit. *)
C20_CommitLeavesBackups ==
    last.op = "commit"
        => \A p \in DOMAIN backedUp :
               UnderHome(p) => Mirror(p) \notin last.overwritten

====
